---- MODULE Spec2Model ----
(***************************************************************************)
(* Model of eduschedule-backend/services/scheduler.py:                     *)
(* AdvancedTimetableScheduler (construction, variable creation, constraint *)
(* emission, solve) and TimetableSolutionCollector (solution callback and  *)
(* metrics).  The CP-SAT solver is modelled as a nondeterministic search   *)
(* over the boolean variables of the model built by the scheduler: it may  *)
(* report any valuation that satisfies every constraint that was added.    *)
(***************************************************************************)
EXTENDS Integers, Sequences, FiniteSets, TLC

VARIABLES
    args,                       \* the constructor arguments (raw input lists)
    rooms, subjects, classes, teachers,          \* self.<x>: id -> record
    teacher_qualifications,     \* self.teacher_qualifications: teacher -> subjects
    class_subject_requirements, \* self.class_subject_requirements: class -> subject -> periods
    consecutive_requirements,   \* self.consecutive_requirements: class -> subject -> block size
    teacher_availability,       \* self.teacher_availability: teacher -> day -> periods
    teacher_preferences,        \* self.teacher_preferences: teacher -> parsed preferences
    assignments,                \* keys of self.assignments (one BoolVar each)
    consecutive_vars,           \* keys of self.consecutive_vars (one BoolVar each)
    model,                      \* constraints added to self.model
    objective,                  \* terms of the objective of self.model
    solution_limit,             \* argument of solve
    pc,                         \* position of solve: "init", "solving", "done"
    val,                        \* solver search: assignment variables currently true
    emitted,                    \* full valuations the solver has already reported
    solutions,                  \* collector's __solutions
    stopped,                    \* StopSearch was called
    status,                     \* status returned by SolveWithSolutionCallback
    result,                     \* list returned by solve
    availability_doc,           \* argument of a direct call of _parse_availability
    parsed_availability,        \* value returned by that call
    runs,                       \* number of the solve of these inputs: 1 or 2
    first_result,               \* list returned by the first solve of these inputs
    candidate,                  \* assignments list of the argument of validate_solution
    validation_result,          \* value returned by validate_solution
    task_pc,                    \* position of generate_timetable_task
    retries,                    \* self.request.retries
    timetable_row,              \* the row of timetable_id in 'timetables'
    db_candidates,              \* rows of timetable_id in 'candidates'
    db_assignments,             \* rows of timetable_id in 'assignments'
    saved_candidates,           \* local list saved_candidates of the attempt
    idx,                        \* loop index over the solutions of the attempt
    uuid_count                  \* number of uuid4 values drawn: the last is candidate_id

vars == <<args, rooms, subjects, classes, teachers, teacher_qualifications,
          class_subject_requirements, consecutive_requirements,
          teacher_availability, teacher_preferences, assignments,
          consecutive_vars, model, objective, solution_limit, pc, val, emitted,
          solutions, stopped, status, result,
          availability_doc, parsed_availability, runs, first_result,
          candidate, validation_result,
          task_pc, retries, timetable_row, db_candidates, db_assignments,
          saved_candidates, idx, uuid_count>>

-----------------------------------------------------------------------------
(* Program constants *)

NumDays == 5
NumPeriods == 8
DefaultPeriodsPerWeek == 1
DefaultAllSubjectsPeriods == 2
DefaultConsecutivePeriods == 2
DefaultMaxDailyLoad == 6
DefaultMaxConsecutive == 4
MaxWeeklyLoad == 30
PreferredDayBonus == 3
PreferredPeriodBonus == 2
AvoidedPeriodPenalty == 5
TimeOfDayPenalty == 2
MorningEnd == 4
AssignmentWeight == 10
GapWeight == 5
ViolationWeight == 2

days == 0 .. (NumDays - 1)
periods == 0 .. (NumPeriods - 1)

(* Bounds of the exploration *)

\* largest number of consecutive-block variables the solver sets true in one
\* reported valuation
MaxBlocksTrue == 1

\* periods of Monday through which the search of scenario E1 is followed
E1Window == 5

-----------------------------------------------------------------------------
(* Python dict helpers: a dict is a function, a missing key is outside its  *)
(* DOMAIN.                                                                  *)

EmptyDict == <<>>

Get(d, k, default) == IF k \in DOMAIN d THEN d[k] ELSE default

Put(d, k, v) == [x \in (DOMAIN d) \cup {k} |-> IF x = k THEN v ELSE d[x]]

Range(s) == {s[i] : i \in DOMAIN s}

Max(S) == CHOOSE x \in S : \A y \in S : y <= x

\* {r['id']: r for r in records}: a later record replaces an earlier one
ById(records) ==
    [id \in {records[i].id : i \in DOMAIN records} |->
        LET last == Max({i \in DOMAIN records : records[i].id = id})
        IN  records[last]]

-----------------------------------------------------------------------------
(* __init__ *)

\* for ts in teacher_subjects: quals.setdefault(t_id, []).append(s_id)
RECURSIVE BuildQualifications(_, _, _)
BuildQualifications(teacher_subjects, i, quals) ==
    IF i > Len(teacher_subjects) THEN quals
    ELSE LET ts == teacher_subjects[i]
             old == Get(quals, ts.teacher_id, <<>>)
         IN  BuildQualifications(teacher_subjects, i + 1,
                 Put(quals, ts.teacher_id, Append(old, ts.subject_id)))

\* for cs in class_subjects: reqs.setdefault(c_id, {})[s_id] = cs.get('periods_per_week', 1)
RECURSIVE BuildRequirementsFrom(_, _, _)
BuildRequirementsFrom(class_subjects, i, reqs) ==
    IF i > Len(class_subjects) THEN reqs
    ELSE LET cs == class_subjects[i]
             periods_needed == Get(cs, "periods_per_week", DefaultPeriodsPerWeek)
             old == Get(reqs, cs.class_id, EmptyDict)
         IN  BuildRequirementsFrom(class_subjects, i + 1,
                 Put(reqs, cs.class_id, Put(old, cs.subject_id, periods_needed)))

\* if class_subjects: ... else: every class needs every subject twice a week
BuildRequirements(class_subjects, classesById, subjectsById) ==
    IF Len(class_subjects) > 0
    THEN BuildRequirementsFrom(class_subjects, 1, EmptyDict)
    ELSE [c \in DOMAIN classesById |->
             [s \in DOMAIN subjectsById |-> DefaultAllSubjectsPeriods]]

RECURSIVE PutForClasses(_, _, _, _)
PutForClasses(reqs, cls, s_id, n) ==
    IF cls = {} THEN reqs
    ELSE LET c == CHOOSE x \in cls : TRUE
         IN  PutForClasses(Put(reqs, c, Put(Get(reqs, c, EmptyDict), s_id, n)),
                           cls \ {c}, s_id, n)

\* for cr in consecutive_requirements: class_id defaults to 'all'
RECURSIVE BuildConsecutive(_, _, _, _)
BuildConsecutive(crs, i, classesById, reqs) ==
    IF i > Len(crs) THEN reqs
    ELSE LET cr == crs[i]
             c_id == Get(cr, "class_id", "all")
             n == Get(cr, "consecutive_periods", DefaultConsecutivePeriods)
         IN  BuildConsecutive(crs, i + 1, classesById,
                 IF c_id = "all"
                 THEN PutForClasses(reqs, DOMAIN classesById, cr.subject_id, n)
                 ELSE PutForClasses(reqs, {c_id}, cr.subject_id, n))

\* str.lower() on the day names that occur in the inputs
Lower(name) ==
    CASE name = "Monday" -> "monday"
      [] name = "MON" -> "mon"
      [] name = "Tue" -> "tue"
      [] OTHER -> name

day_mapping ==
    [n \in {"monday", "tuesday", "wednesday", "thursday", "friday",
            "mon", "tue", "wed", "thu", "fri"} |->
        CASE n \in {"monday", "mon"} -> 0
          [] n \in {"tuesday", "tue"} -> 1
          [] n \in {"wednesday", "wed"} -> 2
          [] n \in {"thursday", "thu"} -> 3
          [] OTHER -> 4]

\* a day entry whose 'unavailable' key is not subtracted
DayEntryPeriods_IgnoresUnavailable(day_data) ==
    IF day_data.type = "dict" THEN Get(day_data, "available", periods)
    ELSE IF day_data.type = "list" THEN day_data.val
    ELSE periods

\* one day entry: a dict with 'available'/'unavailable', a list, or anything
\* else.  day_data.type is the Python type; a dict carries its keys beside
\* it, a list its elements in val.
DayEntryPeriods(day_data) ==
    IF day_data.type = "dict"
    THEN Get(day_data, "available", periods) \ Get(day_data, "unavailable", {})
    ELSE IF day_data.type = "list" THEN day_data.val
    ELSE periods

\* for day_name, day_data in availability.items(): (insertion order)
RECURSIVE ParseDayEntries(_, _, _)
ParseDayEntries(entries, i, parsed) ==
    IF i > Len(entries) THEN parsed
    ELSE LET e == entries[i]
         IN  ParseDayEntries(entries, i + 1,
                 IF Lower(e.name) \in DOMAIN day_mapping
                 THEN Put(parsed, day_mapping[Lower(e.name)], DayEntryPeriods(e.data))
                 ELSE parsed)

\* for day in self.days: parsed[day] = parsed.get(day, all) - removed
RemoveEveryDay(parsed, removed) ==
    [d \in (DOMAIN parsed) \cup days |->
        IF d \in days THEN Get(parsed, d, periods) \ removed ELSE parsed[d]]

\* _parse_availability.  An availability document is
\* [entries |-> <<[name, data], ...>>, hard_constraints |-> dict] where the
\* 'hard_constraints' key may be missing.
_parse_availability(availability) ==
    LET p0 == ParseDayEntries(Get(availability, "entries", <<>>), 1, EmptyDict)
        hard == Get(availability, "hard_constraints", EmptyDict)
        p1 == IF Get(hard, "never_monday_morning", FALSE)
              THEN Put(p0, 0, Get(p0, 0, periods) \ {0, 1, 2})
              ELSE p0
        p2 == IF Get(hard, "no_last_period", FALSE)
              THEN RemoveEveryDay(p1, {Max(periods)})
              ELSE p1
        p3 == IF Get(hard, "no_early_morning", FALSE)
              THEN RemoveEveryDay(p2, {0})
              ELSE p2
    IN  [d \in days |-> Get(p3, d, periods)]

\* _parse_preferences
_parse_preferences(preferences) ==
    [preferred_days |->
        {day_mapping[Lower(n)] :
            n \in {m \in Get(preferences, "preferred_days", {}) :
                        Lower(m) \in DOMAIN day_mapping}},
     preferred_periods |-> Get(preferences, "preferred_periods", {}),
     avoided_periods |-> Get(preferences, "avoided_periods", {}),
     max_consecutive |-> Get(preferences, "max_consecutive_periods", DefaultMaxConsecutive),
     min_break |-> Get(preferences, "min_break_between_classes", 0),
     preferred_rooms |-> Get(preferences, "preferred_rooms", {}),
     max_daily_load |-> Get(preferences, "max_daily_load", DefaultMaxDailyLoad),
     prefers_morning |-> Get(preferences, "prefers_morning", FALSE),
     prefers_afternoon |-> Get(preferences, "prefers_afternoon", FALSE)]

-----------------------------------------------------------------------------
(* _create_variables *)

Key(c, s, t, r, d, p) ==
    [class_id |-> c, subject_id |-> s, teacher_id |-> t, room_id |-> r,
     day_of_week |-> d, period |-> p]

\* mutant: every teacher with a qualification is taken as qualified
QualifiedTeachers_AnySubject(s_id) == DOMAIN teacher_qualifications

\* qualified_teachers = [t_id for t_id, subjects in quals.items() if s_id in subjects]
QualifiedTeachers(s_id) ==
    {t_id \in DOMAIN teacher_qualifications :
        s_id \in Range(teacher_qualifications[t_id])}

\* mutant: the capacity check is missing
_find_suitable_rooms_NoCapacity(subject_id, class_id) ==
    LET subject_data == Get(subjects, subject_id, EmptyDict)
        required_features == Get(subject_data, "required_features", {})
    IN  {r_id \in DOMAIN rooms :
            required_features \subseteq Get(rooms[r_id], "features", {})}

\* _find_suitable_rooms
_find_suitable_rooms(subject_id, class_id) ==
    LET subject_data == Get(subjects, subject_id, EmptyDict)
        class_data == Get(classes, class_id, EmptyDict)
        required_features == Get(subject_data, "required_features", {})
        student_count == Get(class_data, "student_count", 0)
    IN  {r_id \in DOMAIN rooms :
            /\ ~(student_count > Get(rooms[r_id], "capacity", 0))
            /\ required_features \subseteq Get(rooms[r_id], "features", {})}

\* mutant: the day is ignored and Monday's periods are used for every day
AvailablePeriods_IgnoresDay(t_id, d) ==
    Get(Get(teacher_availability, t_id, EmptyDict), 0, {})

\* available_periods = self.teacher_availability.get(t_id, {}).get(d, set())
AvailablePeriods(t_id, d) ==
    Get(Get(teacher_availability, t_id, EmptyDict), d, {})

\* the keys of self.assignments after the nested loops of _create_variables
CreateAssignmentVars ==
    UNION {
        UNION {
            {Key(c_id, s_id, t_id, r_id, d, p) :
                t_id \in QualifiedTeachers(s_id),
                r_id \in _find_suitable_rooms(s_id, c_id),
                d \in days,
                p \in periods} :
            s_id \in DOMAIN Get(class_subject_requirements, c_id, EmptyDict)} :
        c_id \in DOMAIN classes}

\* if p not in available_periods: continue
_create_variables ==
    {k \in CreateAssignmentVars :
        k.period \in AvailablePeriods(k.teacher_id, k.day_of_week)}

\* _create_consecutive_variables: start_period in range(len(periods) - count + 1)
_create_consecutive_variables ==
    UNION {
        UNION {
            {[class_id |-> c_id, subject_id |-> s_id, day_of_week |-> d,
              start_period |-> start, consecutive_count |-> consecutive_requirements[c_id][s_id]] :
                d \in days,
                start \in 0 .. (NumPeriods - consecutive_requirements[c_id][s_id])} :
            s_id \in DOMAIN consecutive_requirements[c_id]} :
        c_id \in DOMAIN consecutive_requirements}

-----------------------------------------------------------------------------
(* Constraints.  Each is a record; "vars" is the set of assignment keys it  *)
(* sums over.                                                               *)

AtMostOne(vs) == [type |-> "AtMostOne", vars |-> vs]
SumEq(vs, n) == [type |-> "Eq", vars |-> vs, rhs |-> n]
SumLe(vs, n) == [type |-> "Le", vars |-> vs, rhs |-> n]
SumEqOnlyIf(vs, n, lit) == [type |-> "EqIf", vars |-> vs, rhs |-> n, lit |-> lit]

\* mutant: no teacher exclusion is emitted
_add_teacher_conflict_constraints_None(A) == {}

_add_teacher_conflict_constraints(A) ==
    {AtMostOne({k \in A : k.teacher_id = t_id /\ k.day_of_week = d /\ k.period = p}) :
        <<t_id, d, p>> \in {x \in (DOMAIN teachers) \X days \X periods :
            \E k \in A : k.teacher_id = x[1] /\ k.day_of_week = x[2] /\ k.period = x[3]}}

\* mutant: no room exclusion is emitted
_add_room_conflict_constraints_None(A) == {}

_add_room_conflict_constraints(A) ==
    {AtMostOne({k \in A : k.room_id = r_id /\ k.day_of_week = d /\ k.period = p}) :
        <<r_id, d, p>> \in {x \in (DOMAIN rooms) \X days \X periods :
            \E k \in A : k.room_id = x[1] /\ k.day_of_week = x[2] /\ k.period = x[3]}}

\* mutant: no class exclusion is emitted
_add_class_conflict_constraints_None(A) == {}

_add_class_conflict_constraints(A) ==
    {AtMostOne({k \in A : k.class_id = c_id /\ k.day_of_week = d /\ k.period = p}) :
        <<c_id, d, p>> \in {x \in (DOMAIN classes) \X days \X periods :
            \E k \in A : k.class_id = x[1] /\ k.day_of_week = x[2] /\ k.period = x[3]}}

\* only pairs with at least one variable get a constraint (if relevant_vars:)
_add_subject_frequency_constraints(A) ==
    UNION {
        {SumEq({k \in A : k.class_id = c_id /\ k.subject_id = s_id},
               class_subject_requirements[c_id][s_id]) :
            s_id \in {s \in DOMAIN class_subject_requirements[c_id] :
                        \E k \in A : k.class_id = c_id /\ k.subject_id = s}} :
        c_id \in DOMAIN class_subject_requirements}

\* block_vars of one consecutive variable
BlockVars(A, cv) ==
    {k \in A : /\ k.class_id = cv.class_id
               /\ k.subject_id = cv.subject_id
               /\ k.day_of_week = cv.day_of_week
               /\ k.period \in cv.start_period .. (cv.start_period + cv.consecutive_count - 1)}

\* model.Add(sum(block_vars) == consecutive_count).OnlyEnforceIf(consecutive_var)
_add_consecutive_period_constraints(A, CV) ==
    {SumEqOnlyIf(BlockVars(A, cv), cv.consecutive_count, cv) :
        cv \in {x \in CV : BlockVars(A, x) # {}}}

_add_hard_constraints(A, CV) ==
    _add_teacher_conflict_constraints(A)
        \cup _add_room_conflict_constraints(A)
        \cup _add_class_conflict_constraints(A)
        \cup _add_subject_frequency_constraints(A)
        \cup _add_consecutive_period_constraints(A, CV)

\* workload limits without the daily one
_add_workload_constraints_WeeklyOnly(A) ==
    {SumLe({k \in A : k.teacher_id = t_id}, MaxWeeklyLoad) :
        t_id \in {t \in DOMAIN teacher_preferences : \E k \in A : k.teacher_id = t}}

_add_workload_constraints(A) ==
    UNION {
        {SumLe({k \in A : k.teacher_id = t_id /\ k.day_of_week = d},
               teacher_preferences[t_id].max_daily_load) :
            d \in {x \in days : \E k \in A : k.teacher_id = t_id /\ k.day_of_week = x}}
        \cup
        (IF \E k \in A : k.teacher_id = t_id
         THEN {SumLe({k \in A : k.teacher_id = t_id}, MaxWeeklyLoad)}
         ELSE {}) :
        t_id \in DOMAIN teacher_preferences}

\* _add_preferences_objective: the terms of the maximized sum, one triple
\* (variable, kind, weight) per term; no term means no objective is set
_add_preferences_objective(A) ==
    UNION {
        LET prefs == teacher_preferences[t_id]
            mine == {k \in A : k.teacher_id = t_id}
        IN  {<<k, "preferred_day", PreferredDayBonus>> :
                k \in {x \in mine : x.day_of_week \in prefs.preferred_days}}
            \cup
            {<<k, "preferred_period", PreferredPeriodBonus>> :
                k \in {x \in mine : x.period \in prefs.preferred_periods}}
            \cup
            {<<k, "avoided_period", 0 - AvoidedPeriodPenalty>> :
                k \in {x \in mine : x.period \in prefs.avoided_periods}}
            \cup
            {<<k, "afternoon", 0 - TimeOfDayPenalty>> :
                k \in {x \in mine : prefs.prefers_morning /\ x.period >= MorningEnd}}
            \cup
            {<<k, "morning", 0 - TimeOfDayPenalty>> :
                k \in {x \in mine : prefs.prefers_afternoon /\ x.period < MorningEnd}} :
        t_id \in DOMAIN teacher_preferences}

-----------------------------------------------------------------------------
(* The solver: a valuation is the set v of true assignment variables and    *)
(* the set b of true consecutive-block variables.                           *)

Count(c, v) == Cardinality(c.vars \cap v)

Satisfied(c, v, b) ==
    CASE c.type = "AtMostOne" -> Count(c, v) <= 1
      [] c.type = "Eq" -> Count(c, v) = c.rhs
      [] c.type = "Le" -> Count(c, v) <= c.rhs
      [] OTHER -> (c.lit \in b) => (Count(c, v) = c.rhs)

\* a partial valuation that setting more variables true can still complete
Extendable(c, v) ==
    CASE c.type = "AtMostOne" -> Count(c, v) <= 1
      [] c.type = "Eq" -> Count(c, v) <= c.rhs
      [] c.type = "Le" -> Count(c, v) <= c.rhs
      [] OTHER -> TRUE

\* value of the objective under a valuation
RECURSIVE SumWeights(_)
SumWeights(terms) ==
    IF terms = {} THEN 0
    ELSE LET x == CHOOSE y \in terms : TRUE
         IN  x[3] + SumWeights(terms \ {x})

ObjectiveValue(terms, v) == SumWeights({x \in terms : x[1] \in v})

\* with an objective the solver reports improving solutions only
Improves(terms, v, found) ==
    IF terms = {} \/ found = <<>> THEN TRUE
    ELSE ObjectiveValue(terms, v) > ObjectiveValue(terms, found[Len(found)].assignments)

RECURSIVE SubsetsUpTo(_, _)
SubsetsUpTo(S, n) ==
    IF n = 0 THEN {{}}
    ELSE LET prev == SubsetsUpTo(S, n - 1)
         IN  prev \cup {x \cup {k} : x \in prev, k \in S}

-----------------------------------------------------------------------------
(* TimetableSolutionCollector *)

\* (teacher, day, period) triples of teacher_schedules
TeacherSlots(solution) ==
    {<<a.teacher_id, a.day_of_week, a.period>> : a \in solution}

\* for i in range(len(periods) - 1): if periods[i + 1] - periods[i] > 1: gaps += 1
GapsCount(solution) ==
    LET ts == TeacherSlots(solution)
    IN  Cardinality({x \in ts :
            /\ \E y \in ts : y[1] = x[1] /\ y[2] = x[2] /\ y[3] > x[3]
            /\ <<x[1], x[2], x[3] + 1>> \notin ts})

\* preferences come from the raw teacher record handed to the collector
PreferenceViolations(solution) ==
    Cardinality({a \in solution :
        LET teacher_data == Get(teachers, a.teacher_id, EmptyDict)
            preferences == Get(teacher_data, "preferences", EmptyDict)
            preferred_periods == Get(preferences, "preferred_periods", {})
        IN  preferred_periods # {} /\ a.period \notin preferred_periods})

_calculate_solution_metrics(solution) ==
    LET gaps == GapsCount(solution)
        violations == PreferenceViolations(solution)
    IN  [total_assignments |-> Cardinality(solution),
         teachers_used |-> Cardinality({a.teacher_id : a \in solution}),
         rooms_used |-> Cardinality({a.room_id : a \in solution}),
         teacher_workload |->
            [t \in {a.teacher_id : a \in solution} |->
                Cardinality({a \in solution : a.teacher_id = t})],
         preference_violations |-> violations,
         gaps_count |-> gaps,
         total_score |-> Cardinality(solution) * AssignmentWeight
                            - gaps * GapWeight - violations * ViolationWeight]

\* a sort that leaves the list in the order of emission
InsertByScore_Append(sorted, x) == Append(sorted, x)

\* list.sort(key=total_score, reverse=True): stable, descending
InsertByScore(sorted, x) ==
    LET ahead == {i \in DOMAIN sorted :
                    sorted[i].metrics.total_score >= x.metrics.total_score}
        n == Cardinality(ahead)
    IN  SubSeq(sorted, 1, n) \o <<x>> \o SubSeq(sorted, n + 1, Len(sorted))

RECURSIVE SortByScore(_)
SortByScore(seq) ==
    IF seq = <<>> THEN <<>>
    ELSE InsertByScore(SortByScore(SubSeq(seq, 1, Len(seq) - 1)), seq[Len(seq)])

-----------------------------------------------------------------------------
(* Inputs *)

ClassRecord(id) ==
    [id |-> id, student_count |-> IF id = "c1" THEN 20 ELSE 40]

RoomRecord(id) ==
    IF id = "r1" THEN [id |-> id, capacity |-> 30]
    ELSE [id |-> id, capacity |-> 50, features |-> {"lab"}]

SubjectRecord(id) ==
    IF id = "s1" THEN [id |-> id, periods_per_week |-> 2]
    ELSE [id |-> id, periods_per_week |-> 2, required_features |-> {"lab"}]

ListEntry(name, ps) == [name |-> name, data |-> [type |-> "list", val |-> ps]]

ClosedFrom(names) == [i \in DOMAIN names |-> ListEntry(names[i], {})]

\* Monday periods 0..2 only
AvMonFirst3 ==
    [entries |-> <<ListEntry("monday", {0, 1, 2})>>
                    \o ClosedFrom(<<"tuesday", "wednesday", "thursday", "friday">>)]

\* Monday periods 1 and 2 only, written as available minus unavailable
AvMonDict ==
    [entries |-> <<[name |-> "Monday",
                    data |-> [type |-> "dict",
                              available |-> {0, 1, 2, 3},
                              unavailable |-> {0, 3}]]>>
                    \o ClosedFrom(<<"Tue", "wed", "thu", "fri">>)]

\* Monday period 3 only, through the hard flags
AvFlags ==
    [entries |-> <<ListEntry("mon", {0, 2, 3, 7})>>
                    \o ClosedFrom(<<"tuesday", "wednesday", "thursday", "friday">>),
     hard_constraints |-> [never_monday_morning |-> TRUE, no_last_period |-> TRUE]]

\* Monday periods 0, 1 and 3 only
AvMonGap ==
    [entries |-> <<ListEntry("monday", {0, 1, 3})>>
                    \o ClosedFrom(<<"tuesday", "wednesday", "thursday", "friday">>)]

PrefFirstPeriod ==
    [preferred_periods |-> {0}, preferred_days |-> {"Monday"}, max_daily_load |-> 2]

Teacher(id, av) == [id |-> id, availability |-> av]

TeacherWithPrefs(id, av, prefs) ==
    [id |-> id, availability |-> av, preferences |-> prefs]

TS(t, s) == [teacher_id |-> t, subject_id |-> s]

CS(c, s) == [class_id |-> c, subject_id |-> s]

CSP(c, s, n) == [class_id |-> c, subject_id |-> s, periods_per_week |-> n]

ClassesOptions == {<<ClassRecord("c1")>>, <<ClassRecord("c1"), ClassRecord("c2")>>}

RoomsOptions == {<<RoomRecord("r1")>>, <<RoomRecord("r1"), RoomRecord("r2")>>}

SubjectsOptions == {<<SubjectRecord("s1"), SubjectRecord("s2")>>}

TeachersOptions ==
    {<<Teacher("t1", AvMonFirst3)>>,
     <<Teacher("t1", AvMonFirst3), Teacher("t2", AvMonDict)>>,
     <<TeacherWithPrefs("t1", AvMonFirst3, PrefFirstPeriod), Teacher("t2", AvFlags)>>}

TeacherSubjectsOptions ==
    {<<>>,
     <<TS("t1", "s1")>>,
     <<TS("t1", "s1"), TS("t2", "s1")>>,
     <<TS("t1", "s1"), TS("t1", "s2")>>,
     <<TS("t1", "s1"), TS("t2", "s2")>>,
     <<TS("t1", "s1"), TS("t3", "s2")>>}

ClassSubjectsOptions ==
    {<<>>,
     <<CS("c1", "s1")>>,
     <<CSP("c1", "s1", 2)>>,
     <<CSP("c1", "s1", 0)>>,
     <<CS("c1", "s1"), CS("c2", "s1")>>,
     <<CS("c1", "s1"), CS("c1", "s2")>>,
     <<CSP("c1", "s1", 1), CSP("c1", "s1", 2), CS("c1", "s2")>>}

ConsecutiveOptions ==
    {<<[subject_id |-> "s1"]>>,
     <<[subject_id |-> "s1", class_id |-> "c1", consecutive_periods |-> 2]>>}

\* instances whose teachers are available in a few Monday periods only
SmallInstances ==
    [teachers : TeachersOptions, rooms : RoomsOptions, subjects : SubjectsOptions,
     classes : ClassesOptions, teacher_subjects : TeacherSubjectsOptions,
     class_subjects : ClassSubjectsOptions,
     consecutive_requirements : {<<>>}]

\* instances with a consecutive requirement on (c1, s1)
ConsecutiveInstances ==
    [teachers : {<<Teacher("t1", AvMonFirst3)>>},
     rooms : {<<RoomRecord("r1")>>},
     subjects : SubjectsOptions,
     classes : ClassesOptions,
     teacher_subjects : {<<TS("t1", "s1")>>},
     class_subjects : {<<CS("c1", "s1")>>, <<CSP("c1", "s1", 2)>>},
     consecutive_requirements : ConsecutiveOptions]

\* instances of the shape of the unit tests: an empty availability document
OpenInstances ==
    [teachers : {<<Teacher("t1", EmptyDict)>>},
     rooms : {<<RoomRecord("r1")>>},
     subjects : {<<SubjectRecord("s1")>>},
     classes : {<<ClassRecord("c1")>>},
     teacher_subjects : {<<TS("t1", "s1")>>},
     class_subjects : {<<CS("c1", "s1")>>},
     consecutive_requirements : {<<>>, <<[subject_id |-> "s1"]>>}]

\* instances with several timetables of different and of equal score: one
\* class needs two periods of one subject from a teacher free in Monday
\* periods 0, 1 and 3
RankingInstances ==
    [teachers : {<<Teacher("t1", AvMonGap)>>},
     rooms : {<<RoomRecord("r1")>>},
     subjects : {<<SubjectRecord("s1")>>},
     classes : {<<ClassRecord("c1")>>},
     teacher_subjects : {<<TS("t1", "s1")>>},
     class_subjects : {<<CSP("c1", "s1", 2)>>},
     consecutive_requirements :
        {<<>>, <<[subject_id |-> "s1", consecutive_periods |-> 7]>>}]

\* the values of solution_limit tried on them: every one without consecutive
\* requirements, 2 with them
RankingCalls ==
    {call \in RankingInstances \X {-1, 0, 1, 2, 3} :
        call[1].consecutive_requirements = <<>> \/ call[2] = 2}

\* instances in which some of the four collections are empty while
\* qualification and requirement records are supplied
EmptyCollectionInstances ==
    [teachers : {<<>>, <<Teacher("t1", AvMonFirst3)>>},
     rooms : {<<>>, <<RoomRecord("r1")>>},
     subjects : {<<>>, <<SubjectRecord("s1")>>},
     classes : {<<>>, <<ClassRecord("c1")>>},
     teacher_subjects : {<<TS("t1", "s1")>>},
     class_subjects : {<<>>, <<CS("c1", "s1")>>},
     consecutive_requirements : {<<>>}]

\* solve(solution_limit=...): the calls that are explored
Calls ==
    ((SmallInstances \cup ConsecutiveInstances \cup EmptyCollectionInstances) \X {1})
        \cup (OpenInstances \X {1, 2})
        \cup RankingCalls

-----------------------------------------------------------------------------
(* State machine *)

\* validation_result before anything is checked
NoErrors ==
    [valid |-> TRUE, errors |-> <<>>,
     statistics |-> [total_assignments |-> 0, teachers_used |-> 0, rooms_used |-> 0]]

\* state of generate_timetable_task
task == <<task_pc, retries, timetable_row, db_candidates, db_assignments,
          saved_candidates, idx, uuid_count>>

\* no task is running
TaskIdle ==
    /\ task_pc = "none"
    /\ retries = 0
    /\ timetable_row = [status |-> "pending", default_candidate_id |-> 0]
    /\ db_candidates = {}
    /\ db_assignments = {}
    /\ saved_candidates = <<>>
    /\ idx = 0
    /\ uuid_count = 0

\* the scheduler after AdvancedTimetableScheduler(...) for one of the calls,
\* with the caller at position start
Constructed(calls, start) ==
    /\ \E call \in calls :
        /\ args = call[1]
        /\ solution_limit = call[2]
    /\ rooms = ById(args.rooms)
    /\ subjects = ById(args.subjects)
    /\ classes = ById(args.classes)
    /\ teachers = ById(args.teachers)
    /\ teacher_qualifications = BuildQualifications(args.teacher_subjects, 1, EmptyDict)
    /\ class_subject_requirements =
            BuildRequirements(args.class_subjects, ById(args.classes), ById(args.subjects))
    /\ consecutive_requirements =
            BuildConsecutive(args.consecutive_requirements, 1, ById(args.classes), EmptyDict)
    /\ teacher_availability =
            [t \in DOMAIN ById(args.teachers) |->
                _parse_availability(Get(ById(args.teachers)[t], "availability", EmptyDict))]
    /\ teacher_preferences =
            [t \in DOMAIN ById(args.teachers) |->
                _parse_preferences(Get(ById(args.teachers)[t], "preferences", EmptyDict))]
    /\ assignments = {}
    /\ consecutive_vars = {}
    /\ model = {}
    /\ objective = {}
    /\ pc = start
    /\ val = {}
    /\ emitted = {}
    /\ solutions = <<>>
    /\ stopped = FALSE
    /\ status = "NONE"
    /\ result = <<>>

\* a scheduler about to solve, nothing else going on
InitWith(calls) ==
    /\ Constructed(calls, "init")
    /\ availability_doc = EmptyDict
    /\ parsed_availability = EmptyDict
    /\ runs = 1
    /\ first_result = <<>>
    /\ candidate = <<>>
    /\ validation_result = NoErrors
    /\ TaskIdle

Init == InitWith(Calls)

inputs == <<args, rooms, subjects, classes, teachers, teacher_qualifications,
            class_subject_requirements, consecutive_requirements,
            teacher_availability, teacher_preferences, solution_limit>>

\* state of a direct call of _parse_availability, untouched by solve
parser == <<availability_doc, parsed_availability>>

\* what is remembered of an earlier solve of the same inputs
rerun == <<runs, first_result>>

\* state of a call of validate_solution
validation == <<candidate, validation_result>>

\* solve, up to "if not self.assignments: return []"
SolveNoAssignments ==
    /\ pc = "init"
    /\ _create_variables = {}
    /\ assignments' = {}
    /\ consecutive_vars' = _create_consecutive_variables
    /\ pc' = "done"
    /\ result' = <<>>
    /\ UNCHANGED <<inputs, model, objective, val, emitted, solutions, stopped, status>>
    /\ UNCHANGED <<parser, rerun, validation, task>>

\* solve, from _create_variables to the start of the search
SolveBuildModel ==
    /\ pc = "init"
    /\ _create_variables # {}
    /\ assignments' = _create_variables
    /\ consecutive_vars' = _create_consecutive_variables
    /\ model' = _add_hard_constraints(_create_variables, _create_consecutive_variables)
                    \cup _add_workload_constraints(_create_variables)
    /\ objective' = _add_preferences_objective(_create_variables)
    /\ pc' = "solving"
    /\ UNCHANGED <<inputs, val, emitted, solutions, stopped, status, result>>
    /\ UNCHANGED <<parser, rerun, validation, task>>

\* the solver sets one more assignment variable true
SolverBranch ==
    /\ pc = "solving"
    /\ ~stopped
    /\ \E k \in assignments \ val :
        /\ \A c \in model : Extendable(c, val \cup {k})
        /\ val' = val \cup {k}
    /\ UNCHANGED <<inputs, assignments, consecutive_vars, model, objective, pc,
                   emitted, solutions, stopped, status, result>>
    /\ UNCHANGED <<parser, rerun, validation, task>>

\* the solver reports a feasible valuation: on_solution_callback
on_solution_callback ==
    /\ pc = "solving"
    /\ ~stopped
    /\ Improves(objective, val, solutions)
    /\ \E b \in SubsetsUpTo(consecutive_vars, MaxBlocksTrue) :
        /\ <<val, b>> \notin emitted
        /\ \A c \in model : Satisfied(c, val, b)
        /\ emitted' = emitted \cup {<<val, b>>}
    /\ solutions' = Append(solutions,
            [assignments |-> val, metrics |-> _calculate_solution_metrics(val)])
    /\ stopped' = (Len(solutions') >= solution_limit)
    /\ val' = {}
    /\ UNCHANGED <<inputs, assignments, consecutive_vars, model, objective, pc,
                   status, result>>
    /\ UNCHANGED <<parser, rerun, validation, task>>

\* a solve that returns the collected solutions only when the search was
\* completed
SolveReturn_CompleteOnly ==
    /\ pc = "solving"
    /\ \E st \in IF solutions # <<>> THEN {"OPTIMAL", "FEASIBLE"}
                 ELSE {"INFEASIBLE", "UNKNOWN"} :
        /\ status' = st
        /\ IF st = "OPTIMAL"
           THEN /\ solutions' = SortByScore(solutions)
                /\ result' = SortByScore(solutions)
           ELSE /\ result' = <<>>
                /\ UNCHANGED solutions
    /\ pc' = "done"
    /\ UNCHANGED <<inputs, assignments, consecutive_vars, model, objective, val,
                   emitted, stopped>>
    /\ UNCHANGED <<parser, rerun, validation, task>>

\* SolveWithSolutionCallback returns (search stopped, exhausted or out of
\* time) and solve processes the status
SolveReturn ==
    /\ pc = "solving"
    /\ \E st \in IF solutions # <<>> THEN {"OPTIMAL", "FEASIBLE"}
                 ELSE {"INFEASIBLE", "UNKNOWN"} :
        /\ status' = st
        /\ IF st \in {"OPTIMAL", "FEASIBLE"}
           THEN /\ solutions' = SortByScore(solutions)
                /\ result' = SortByScore(solutions)
           ELSE /\ result' = <<>>
                /\ UNCHANGED solutions
    /\ pc' = "done"
    /\ UNCHANGED <<inputs, assignments, consecutive_vars, model, objective, val,
                   emitted, stopped>>
    /\ UNCHANGED <<parser, rerun, validation, task>>

Next ==
    \/ SolveNoAssignments
    \/ SolveBuildModel
    \/ SolverBranch
    \/ on_solution_callback
    \/ SolveReturn

Spec == Init /\ [][Next]_vars

-----------------------------------------------------------------------------
(* Direct calls of _parse_availability *)

\* a day entry that is a dict with both keys, with 'unavailable' only, with
\* 'available' only
DictEntry(name, av, unav) ==
    [name |-> name, data |-> [type |-> "dict", available |-> av, unavailable |-> unav]]

UnavailableEntry(name, unav) ==
    [name |-> name, data |-> [type |-> "dict", unavailable |-> unav]]

AvailableEntry(name, av) ==
    [name |-> name, data |-> [type |-> "dict", available |-> av]]

\* a day entry that is neither a dict nor a list
OtherEntry(name) == [name |-> name, data |-> [type |-> "str"]]

MondayEntryOptions ==
    {<<>>,
     <<ListEntry("monday", {0, 2, 3, 7})>>,
     <<DictEntry("Monday", {0, 1, 2, 3}, {0, 3})>>,
     <<UnavailableEntry("mon", {1, 6})>>,
     <<AvailableEntry("monday", {1, 2, 4})>>,
     <<OtherEntry("MON")>>}

SecondEntryOptions ==
    {<<>>,
     <<ListEntry("Tue", {0, 7})>>,
     <<DictEntry("friday", {0, 6, 7}, {6})>>,
     <<ListEntry("saturday", {1})>>,
     <<ListEntry("MON", {0, 1, 7})>>}

HardFlags == {"never_monday_morning", "no_last_period", "no_early_morning"}

HardConstraintsOptions ==
    {[f \in on |-> TRUE] : on \in (SUBSET HardFlags) \ {{}}}
        \cup {[f \in HardFlags |-> f = "no_last_period"]}

\* the availability documents that are parsed
AvailabilityDocs ==
    {[entries |-> m \o e] : m \in MondayEntryOptions, e \in SecondEntryOptions}
        \cup {[entries |-> m \o e, hard_constraints |-> h] :
                    m \in MondayEntryOptions, e \in SecondEntryOptions,
                    h \in HardConstraintsOptions}

InitParse ==
    /\ availability_doc \in AvailabilityDocs
    /\ TaskIdle
    /\ parsed_availability = EmptyDict
    /\ pc = "parse"
    /\ args = EmptyDict
    /\ rooms = EmptyDict
    /\ subjects = EmptyDict
    /\ classes = EmptyDict
    /\ teachers = EmptyDict
    /\ teacher_qualifications = EmptyDict
    /\ class_subject_requirements = EmptyDict
    /\ consecutive_requirements = EmptyDict
    /\ teacher_availability = EmptyDict
    /\ teacher_preferences = EmptyDict
    /\ assignments = {}
    /\ consecutive_vars = {}
    /\ model = {}
    /\ objective = {}
    /\ solution_limit = 1
    /\ val = {}
    /\ emitted = {}
    /\ solutions = <<>>
    /\ stopped = FALSE
    /\ status = "NONE"
    /\ result = <<>>
    /\ runs = 1
    /\ first_result = <<>>
    /\ candidate = <<>>
    /\ validation_result = NoErrors

\* parsed = self._parse_availability(availability)
ParseAvailability ==
    /\ pc = "parse"
    /\ parsed_availability' = _parse_availability(availability_doc)
    /\ pc' = "parsed"
    /\ UNCHANGED <<inputs, assignments, consecutive_vars, model, objective, val,
                   emitted, solutions, stopped, status, result, availability_doc>>
    /\ UNCHANGED <<rerun, validation, task>>

NextParse == ParseAvailability

ParseSpec == InitParse /\ [][NextParse]_vars

-----------------------------------------------------------------------------
(* Solving the same inputs twice *)

\* the calls that are made twice: the ranking instance and an instance
\* without any data
TwoRunsCalls ==
    ({x \in RankingInstances : x.consecutive_requirements = <<>>} \X {1, 2, 3})
        \cup ({x \in EmptyCollectionInstances : x.classes = <<>> /\ x.teachers = <<>>}
                \X {1})

InitTwoRuns == InitWith(TwoRunsCalls)

\* a second scheduler is built from the same arguments and solve is called
\* with the same solution_limit
SolveAgain ==
    /\ pc = "done"
    /\ runs = 1
    /\ runs' = 2
    /\ first_result' = result
    /\ assignments' = {}
    /\ consecutive_vars' = {}
    /\ model' = {}
    /\ objective' = {}
    /\ pc' = "init"
    /\ val' = {}
    /\ emitted' = {}
    /\ solutions' = <<>>
    /\ stopped' = FALSE
    /\ status' = "NONE"
    /\ result' = <<>>
    /\ UNCHANGED <<inputs, parser, validation, task>>

NextTwoRuns ==
    \/ Next
    \/ SolveAgain

TwoRunsSpec == InitTwoRuns /\ [][NextTwoRuns]_vars

-----------------------------------------------------------------------------
(* Scenario E1 *)

\* one class of 20, one room of capacity 30, two subjects twice a week, one
\* teacher for each, availability unrestricted, no preferences
E1Instance ==
    [teachers |-> <<Teacher("t1", EmptyDict), Teacher("t2", EmptyDict)>>,
     rooms |-> <<RoomRecord("r1")>>,
     subjects |-> <<[id |-> "s1", periods_per_week |-> 2],
                    [id |-> "s2", periods_per_week |-> 2]>>,
     classes |-> <<ClassRecord("c1")>>,
     teacher_subjects |-> <<TS("t1", "s1"), TS("t2", "s2")>>,
     class_subjects |-> <<CSP("c1", "s1", 2), CSP("c1", "s2", 2)>>,
     consecutive_requirements |-> <<>>]

InitE1 == InitWith({<<E1Instance, 1>>})

\* Of the 80 variables of E1 the search is followed only through those of
\* the first E1Window periods of Monday: a part of what the solver may do.
SolverBranchE1 ==
    /\ SolverBranch
    /\ \A k \in val' : k.day_of_week = 0 /\ k.period < E1Window

NextE1 ==
    \/ SolveBuildModel
    \/ SolverBranchE1
    \/ on_solution_callback
    \/ SolveReturn

E1Spec == InitE1 /\ [][NextE1]_vars

-----------------------------------------------------------------------------
(* Properties of the candidates returned by solve *)

Returned == IF pc = "done" THEN Range(result) ELSE {}

PairCount(cand, c, s) ==
    Cardinality({a \in cand.assignments : a.class_id = c /\ a.subject_id = s})

\* (class, subject) pairs required of a class of the instance
RequiredPairs ==
    UNION {{<<c, s>> : s \in DOMAIN class_subject_requirements[c]} :
            c \in (DOMAIN classes) \cap (DOMAIN class_subject_requirements)}

\* the qualification pairs given as input
QualificationPairs ==
    {<<args.teacher_subjects[i].teacher_id, args.teacher_subjects[i].subject_id>> :
        i \in DOMAIN args.teacher_subjects}

\* room r can host class c for subject s
RoomFits(r, c, s) ==
    /\ Get(rooms[r], "capacity", 0) >= Get(Get(classes, c, EmptyDict), "student_count", 0)
    /\ Get(Get(subjects, s, EmptyDict), "required_features", {})
            \subseteq Get(rooms[r], "features", {})

SameSlot(a, b) == a.day_of_week = b.day_of_week /\ a.period = b.period

C2_NoTeacherConflict ==
    \A cand \in Returned : \A a, b \in cand.assignments :
        (a # b /\ a.teacher_id = b.teacher_id) => ~SameSlot(a, b)

\* a candidate in which one teacher teaches two classes in two rooms
C2_Witness ==
    \E cand \in Returned : \E a, b \in cand.assignments :
        /\ a.teacher_id = b.teacher_id
        /\ a.class_id # b.class_id
        /\ a.room_id # b.room_id

\* C3: in every candidate returned by solve, no two assignments share the
\* same (room_id, day_of_week, period).
C3_NoRoomConflict ==
    \A cand \in Returned : \A a, b \in cand.assignments :
        (a # b /\ a.room_id = b.room_id) => ~SameSlot(a, b)

\* a candidate in which one room hosts two classes taught by two teachers
C3_Witness ==
    \E cand \in Returned : \E a, b \in cand.assignments :
        /\ a.room_id = b.room_id
        /\ a.class_id # b.class_id
        /\ a.teacher_id # b.teacher_id

\* C4: in every candidate returned by solve, no two assignments share the
\* same (class_id, day_of_week, period).
C4_NoClassConflict ==
    \A cand \in Returned : \A a, b \in cand.assignments :
        (a # b /\ a.class_id = b.class_id) => ~SameSlot(a, b)

\* a candidate in which one class has two lessons with two teachers in two rooms
C4_Witness ==
    \E cand \in Returned : \E a, b \in cand.assignments :
        /\ a.class_id = b.class_id
        /\ a.teacher_id # b.teacher_id
        /\ a.room_id # b.room_id

\* S splits into runs of exactly B contiguous periods
RECURSIVE IsUnionOfBlocks(_, _)
IsUnionOfBlocks(S, B) ==
    IF S = {} THEN TRUE
    ELSE LET lo == CHOOSE x \in S : \A y \in S : x <= y
             block == lo .. (lo + B - 1)
         IN  block \subseteq S /\ IsUnionOfBlocks(S \ block, B)

C7_TeacherQualified ==
    \A cand \in Returned : \A a \in cand.assignments :
        <<a.teacher_id, a.subject_id>> \in QualificationPairs

\* a candidate schedules a subject that some available teacher with other
\* qualifications may not teach
C7_Witness ==
    \E cand \in Returned : \E a \in cand.assignments :
        \E t \in (DOMAIN teacher_qualifications) \cap (DOMAIN teachers) :
            /\ <<t, a.subject_id>> \notin QualificationPairs
            /\ \E d \in days : teacher_availability[t][d] # {}

\* C8: in every candidate returned by solve, every assignment's room has
\* capacity >= the student count of its class and has every feature its
\* subject requires.
C8_RoomSuitable ==
    \A cand \in Returned : \A a \in cand.assignments :
        a.room_id \in DOMAIN rooms /\ RoomFits(a.room_id, a.class_id, a.subject_id)

\* a candidate places a class for which one of the rooms is too small
C8_Witness ==
    \E cand \in Returned : \E a \in cand.assignments : \E r \in DOMAIN rooms :
        Get(rooms[r], "capacity", 0) < classes[a.class_id].student_count

\* C9: in every candidate returned by solve, every assignment's period
\* belongs to the resolved available-period set of its teacher for its day.
C9_TeacherAvailable ==
    \A cand \in Returned : \A a \in cand.assignments :
        /\ a.teacher_id \in DOMAIN teacher_availability
        /\ a.period \in teacher_availability[a.teacher_id][a.day_of_week]

\* a candidate uses a teacher who is unavailable in some period of a day on
\* which that teacher teaches
C9_Witness ==
    \E cand \in Returned : \E a \in cand.assignments :
        /\ teacher_availability[a.teacher_id][a.day_of_week] # periods
        /\ \E d \in days : teacher_availability[a.teacher_id][d] = {}

-----------------------------------------------------------------------------
(* validate_solution *)

\* longest assignments list that is validated
MaxListLen == 2

\* the assignments the validated lists are made of: two classes, subjects,
\* teachers and rooms in Monday periods 0 and 1
ListedAssignments ==
    [class_id : {"c1", "c2"}, subject_id : {"s1", "s2"}, teacher_id : {"t1", "t2"},
     room_id : {"r1", "r2"}, day_of_week : {0}, period : {0, 1}]

CandidateLists == UNION {[1 .. n -> ListedAssignments] : n \in 0 .. MaxListLen}

\* time_slots[slot_key], created empty when the slot is first seen
SlotOf(time_slots, slot_key) ==
    Get(time_slots, slot_key, [teachers |-> {}, rooms |-> {}, classes |-> {}])

TeacherError(a, slot) ==
    IF a.teacher_id \in slot.teachers
    THEN <<<<"teacher", a.teacher_id, a.day_of_week, a.period>>>> ELSE <<>>

\* a validation that never reports a room conflict
RoomError_Never(a, slot) == <<>>

RoomError(a, slot) ==
    IF a.room_id \in slot.rooms
    THEN <<<<"room", a.room_id, a.day_of_week, a.period>>>> ELSE <<>>

ClassError(a, slot) ==
    IF a.class_id \in slot.classes
    THEN <<<<"class", a.class_id, a.day_of_week, a.period>>>> ELSE <<>>

\* for assignment in assignments: ... (the loop of validate_solution)
RECURSIVE CheckConflicts(_, _, _, _)
CheckConflicts(list, i, time_slots, res) ==
    IF i > Len(list) THEN res
    ELSE LET a == list[i]
             slot_key == <<a.day_of_week, a.period>>
             slot == SlotOf(time_slots, slot_key)
             found == TeacherError(a, slot) \o RoomError(a, slot) \o ClassError(a, slot)
         IN  CheckConflicts(list, i + 1,
                Put(time_slots, slot_key,
                    [teachers |-> slot.teachers \cup {a.teacher_id},
                     rooms |-> slot.rooms \cup {a.room_id},
                     classes |-> slot.classes \cup {a.class_id}]),
                [res EXCEPT !.valid = IF found # <<>> THEN FALSE ELSE @,
                            !.errors = @ \o found])

validate_solution(list) ==
    CheckConflicts(list, 1, EmptyDict,
        [valid |-> TRUE, errors |-> <<>>,
         statistics |->
            [total_assignments |-> Len(list),
             teachers_used |-> Cardinality({list[i].teacher_id : i \in DOMAIN list}),
             rooms_used |-> Cardinality({list[i].room_id : i \in DOMAIN list})]])

InitValidate ==
    /\ Constructed({<<E1Instance, 1>>}, "validate")
    /\ TaskIdle
    /\ candidate \in CandidateLists
    /\ validation_result = NoErrors
    /\ availability_doc = EmptyDict
    /\ parsed_availability = EmptyDict
    /\ runs = 1
    /\ first_result = <<>>

\* validation_result = scheduler.validate_solution({'assignments': candidate})
ValidateSolution ==
    /\ pc = "validate"
    /\ validation_result' = validate_solution(candidate)
    /\ pc' = "validated"
    /\ UNCHANGED <<inputs, assignments, consecutive_vars, model, objective, val,
                   emitted, solutions, stopped, status, result, candidate>>
    /\ UNCHANGED <<parser, rerun, task>>

NextValidate == ValidateSolution

ValidateSpec == InitValidate /\ [][NextValidate]_vars

-----------------------------------------------------------------------------
(* generate_timetable_task (services/tasks.py): one timetable_id, the       *)
(* attempts Celery makes for it, and the rows they leave in the database.   *)
(* fetch_school_data returns the same data on every attempt; the inserts    *)
(* into 'candidates' and 'assignments' may come back without data; the      *)
(* updates of 'timetables' succeed.                                         *)

\* self.max_retries as explored here (3 in a default Celery task)
MaxRetries == 1

\* settings.SOLUTION_LIMIT as explored here (5 by default)
TaskSolutionLimit == 2

\* validate_school_data
validate_school_data(data) ==
    /\ data.teachers # <<>>
    /\ data.rooms # <<>>
    /\ data.subjects # <<>>
    /\ data.classes # <<>>

\* school data for which the class fits no room: no assignment variable
NoRoomInstances ==
    [teachers : {<<Teacher("t1", AvMonGap)>>},
     rooms : {<<RoomRecord("r1")>>},
     subjects : {<<SubjectRecord("s1")>>},
     classes : {<<ClassRecord("c2")>>},
     teacher_subjects : {<<TS("t1", "s1")>>},
     class_subjects : {<<CSP("c2", "s1", 2)>>},
     consecutive_requirements : {<<>>}]

\* school data without rooms, rejected by validate_school_data
NoRoomsDataInstances ==
    [teachers : {<<Teacher("t1", AvMonGap)>>},
     rooms : {<<>>},
     subjects : {<<SubjectRecord("s1")>>},
     classes : {<<ClassRecord("c1")>>},
     teacher_subjects : {<<TS("t1", "s1")>>},
     class_subjects : {<<CSP("c1", "s1", 2)>>},
     consecutive_requirements : {<<>>}]

\* the school data fetched, with settings.SOLUTION_LIMIT
TaskCalls ==
    ({x \in RankingInstances : x.consecutive_requirements = <<>>}
        \cup NoRoomInstances \cup NoRoomsDataInstances) \X {TaskSolutionLimit}

\* the task is queued for a timetable that has no rows yet
InitTask ==
    /\ Constructed(TaskCalls, "idle")
    /\ availability_doc = EmptyDict
    /\ parsed_availability = EmptyDict
    /\ runs = 1
    /\ first_result = <<>>
    /\ candidate = <<>>
    /\ validation_result = NoErrors
    /\ task_pc = "start"
    /\ retries = 0
    /\ timetable_row = [status |-> "pending", default_candidate_id |-> 0]
    /\ db_candidates = {}
    /\ db_assignments = {}
    /\ saved_candidates = <<>>
    /\ idx = 0
    /\ uuid_count = 0

\* the state of the scheduler object and of the solver: rebuilt per attempt
solving == <<assignments, consecutive_vars, model, objective, pc, val, emitted,
             solutions, stopped, status, result>>

\* except Exception: the timetable row is set to 'error'; the task is retried
\* if self.request.retries < self.max_retries, and the exception is raised
\* otherwise
HandleException ==
    /\ timetable_row' = [timetable_row EXCEPT !.status = "error"]
    /\ IF retries < MaxRetries
       THEN /\ retries' = retries + 1
            /\ task_pc' = "start"
       ELSE /\ task_pc' = "raised"
            /\ UNCHANGED retries

\* an attempt starts: data fetched and validated, scheduler constructed,
\* solve called
TaskStart ==
    /\ task_pc = "start"
    /\ validate_school_data(args)
    /\ task_pc' = "solving"
    /\ assignments' = {}
    /\ consecutive_vars' = {}
    /\ model' = {}
    /\ objective' = {}
    /\ pc' = "init"
    /\ val' = {}
    /\ emitted' = {}
    /\ solutions' = <<>>
    /\ stopped' = FALSE
    /\ status' = "NONE"
    /\ result' = <<>>
    /\ UNCHANGED <<inputs, parser, rerun, validation>>
    /\ UNCHANGED <<retries, timetable_row, db_candidates, db_assignments,
                   saved_candidates, idx, uuid_count>>

\* raise ValueError("Invalid school data - missing required information")
TaskInvalidData ==
    /\ task_pc = "start"
    /\ ~validate_school_data(args)
    /\ HandleException
    /\ UNCHANGED <<inputs, solving, parser, rerun, validation>>
    /\ UNCHANGED <<db_candidates, db_assignments, saved_candidates, idx, uuid_count>>

\* if not solutions: the timetable row is set to 'failed' and the task returns
TaskNoSolutions ==
    /\ task_pc = "solving"
    /\ pc = "done"
    /\ result = <<>>
    /\ timetable_row' = [timetable_row EXCEPT !.status = "failed"]
    /\ task_pc' = "returned"
    /\ UNCHANGED <<inputs, solving, parser, rerun, validation>>
    /\ UNCHANGED <<retries, db_candidates, db_assignments, saved_candidates, idx,
                   uuid_count>>

\* saved_candidates = []; the loop over enumerate(solutions) is entered
TaskBeginSave ==
    /\ task_pc = "solving"
    /\ pc = "done"
    /\ result # <<>>
    /\ saved_candidates' = <<>>
    /\ idx' = 0
    /\ task_pc' = "insert_candidate"
    /\ UNCHANGED <<inputs, solving, parser, rerun, validation>>
    /\ UNCHANGED <<retries, timetable_row, db_candidates, db_assignments, uuid_count>>

\* candidate_id = str(uuid.uuid4()); the row of solutions[idx] is inserted
\* in 'candidates' with rank idx + 1
TaskInsertCandidate ==
    /\ task_pc = "insert_candidate"
    /\ uuid_count' = uuid_count + 1
    /\ db_candidates' = db_candidates \cup
            {[id |-> uuid_count + 1, metrics |-> result[idx + 1].metrics,
              rank |-> idx + 1]}
    /\ task_pc' = "insert_assignments"
    /\ UNCHANGED <<inputs, solving, parser, rerun, validation>>
    /\ UNCHANGED <<retries, timetable_row, db_assignments, saved_candidates, idx>>

\* the insert returns no data: raise Exception("Failed to save candidate ...")
TaskInsertCandidateFails ==
    /\ task_pc = "insert_candidate"
    /\ uuid_count' = uuid_count + 1
    /\ HandleException
    /\ UNCHANGED <<inputs, solving, parser, rerun, validation>>
    /\ UNCHANGED <<db_candidates, db_assignments, saved_candidates, idx>>

\* the assignments of solutions[idx] are inserted in 'assignments' in one
\* batch under candidate_id, the candidate is appended to saved_candidates
\* and the loop goes on
TaskInsertAssignments ==
    /\ task_pc = "insert_assignments"
    /\ db_assignments' = db_assignments \cup
            {[candidate_id |-> uuid_count, assignment |-> a] :
                a \in result[idx + 1].assignments}
    /\ saved_candidates' = Append(saved_candidates,
            [candidate_id |-> uuid_count, metrics |-> result[idx + 1].metrics])
    /\ idx' = idx + 1
    /\ task_pc' = IF idx + 1 < Len(result) THEN "insert_candidate" ELSE "finalizing"
    /\ UNCHANGED <<inputs, solving, parser, rerun, validation>>
    /\ UNCHANGED <<retries, timetable_row, db_candidates, uuid_count>>

\* the batch insert returns no data:
\* raise Exception("Failed to save assignments for candidate ...")
TaskInsertAssignmentsFails ==
    /\ task_pc = "insert_assignments"
    /\ result[idx + 1].assignments # {}
    /\ HandleException
    /\ UNCHANGED <<inputs, solving, parser, rerun, validation>>
    /\ UNCHANGED <<db_candidates, db_assignments, saved_candidates, idx, uuid_count>>

\* mutant: the candidate saved last becomes the default
TaskComplete_LastSaved ==
    /\ task_pc = "finalizing"
    /\ timetable_row' =
            [status |-> "completed",
             default_candidate_id |->
                saved_candidates[Len(saved_candidates)].candidate_id]
    /\ task_pc' = "completed"
    /\ UNCHANGED <<inputs, solving, parser, rerun, validation>>
    /\ UNCHANGED <<retries, db_candidates, db_assignments, saved_candidates, idx,
                   uuid_count>>

\* best_candidate = saved_candidates[0]; the timetable row is set to
\* 'completed' with default_candidate_id = best_candidate['candidate_id']
TaskComplete ==
    /\ task_pc = "finalizing"
    /\ timetable_row' =
            [status |-> "completed",
             default_candidate_id |-> saved_candidates[1].candidate_id]
    /\ task_pc' = "completed"
    /\ UNCHANGED <<inputs, solving, parser, rerun, validation>>
    /\ UNCHANGED <<retries, db_candidates, db_assignments, saved_candidates, idx,
                   uuid_count>>

NextTask ==
    \/ TaskStart
    \/ TaskInvalidData
    \/ SolveNoAssignments
    \/ SolveBuildModel
    \/ SolverBranch
    \/ on_solution_callback
    \/ SolveReturn
    \/ TaskNoSolutions
    \/ TaskBeginSave
    \/ TaskInsertCandidate
    \/ TaskInsertCandidateFails
    \/ TaskInsertAssignments
    \/ TaskInsertAssignmentsFails
    \/ TaskComplete

TaskSpec == InitTask /\ [][NextTask]_vars

-----------------------------------------------------------------------------
(* Metrics, ranking and size of the returned list *)

\* empty periods strictly between the first and the last taught period of a
\* teacher's day, summed over teachers and days
EmptyPeriodsBetween(solution) ==
    LET ts == TeacherSlots(solution)
    IN  Cardinality({x \in {<<y[1], y[2], p>> : y \in ts, p \in periods} :
            /\ x \notin ts
            /\ \E y \in ts : y[1] = x[1] /\ y[2] = x[2] /\ y[3] < x[3]
            /\ \E y \in ts : y[1] = x[1] /\ y[2] = x[2] /\ y[3] > x[3]})

NotPreferred(solution) ==
    {a \in solution :
        /\ a.teacher_id \in DOMAIN teachers
        /\ "preferences" \in DOMAIN teachers[a.teacher_id]
        /\ "preferred_periods" \in DOMAIN teachers[a.teacher_id].preferences
        /\ teachers[a.teacher_id].preferences.preferred_periods # {}
        /\ a.period \notin teachers[a.teacher_id].preferences.preferred_periods}

C13_SortedByScore ==
    pc = "done" =>
        \A i, j \in DOMAIN result :
            i < j => result[i].metrics.total_score >= result[j].metrics.total_score

\* solve returned three candidates, a best one and two of equal lower score
C13_Witness ==
    /\ pc = "done"
    /\ Len(result) = 3
    /\ result[1].metrics.total_score > result[2].metrics.total_score
    /\ result[2].metrics.total_score = result[3].metrics.total_score

\* n^2 times the population variance of the loads of the n active teachers
WorkloadSpread(m) ==
    LET w == m.teacher_workload
        n == Cardinality(DOMAIN w)
        Square == [t \in DOMAIN w |-> w[t] * w[t]]
        RECURSIVE Sum(_, _)
        Sum(f, S) == IF S = {} THEN 0
                     ELSE LET t == CHOOSE x \in S : TRUE
                          IN  f[t] + Sum(f, S \ {t})
    IN  n * Sum(Square, DOMAIN w) - Sum(w, DOMAIN w) * Sum(w, DOMAIN w)

\* teacher_workload_stdev of m1 compared with that of m2: -1, 0 or 1
CompareStdev(m1, m2) ==
    LET n1 == Cardinality(DOMAIN m1.teacher_workload)
        n2 == Cardinality(DOMAIN m2.teacher_workload)
        x == WorkloadSpread(m1) * n2 * n2
        y == WorkloadSpread(m2) * n1 * n1
    IN  IF x < y THEN -1 ELSE IF x = y THEN 0 ELSE 1

\* position of an id in the lexicographic order of the ids of the instances
IdRank(id) ==
    CASE id \in {"c1", "r1", "s1", "t1"} -> 1
      [] id \in {"c2", "r2", "s2", "t2"} -> 2
      [] OTHER -> 3

\* an integer that orders assignments as their (class, subject, teacher,
\* room, day, period) tuples are ordered
TupleCode(a) ==
    ((((IdRank(a.class_id) * 4 + IdRank(a.subject_id)) * 4 + IdRank(a.teacher_id)) * 4
        + IdRank(a.room_id)) * NumDays + a.day_of_week) * NumPeriods + a.period

\* the canonically ordered tuples of A come no later than those of B
RECURSIVE FingerprintLeq(_, _)
FingerprintLeq(A, B) ==
    IF A = {} THEN TRUE
    ELSE IF B = {} THEN FALSE
    ELSE LET a == CHOOSE x \in A : \A y \in A : TupleCode(x) <= TupleCode(y)
             b == CHOOSE x \in B : \A y \in B : TupleCode(x) <= TupleCode(y)
         IN  IF TupleCode(a) < TupleCode(b) THEN TRUE
             ELSE IF TupleCode(a) > TupleCode(b) THEN FALSE
             ELSE FingerprintLeq(A \ {a}, B \ {b})

-----------------------------------------------------------------------------
(* _parse_availability *)

\* positions of the entries of the document that name day d
EntriesOfDay(doc, d) ==
    {i \in DOMAIN doc.entries :
        /\ Lower(doc.entries[i].name) \in DOMAIN day_mapping
        /\ day_mapping[Lower(doc.entries[i].name)] = d}

Flag(doc, f) ==
    /\ "hard_constraints" \in DOMAIN doc
    /\ f \in DOMAIN doc.hard_constraints
    /\ doc.hard_constraints[f]

\* periods the hard flags of the document remove from day d
RemovedByFlags(doc, d) ==
    (IF Flag(doc, "never_monday_morning") /\ d = 0 THEN {0, 1, 2} ELSE {})
        \cup (IF Flag(doc, "no_last_period") THEN {NumPeriods - 1} ELSE {})
        \cup (IF Flag(doc, "no_early_morning") THEN {0} ELSE {})

\* what the entry of a day grants: 'available' minus 'unavailable', a bare
\* list as it is, anything else every period
GrantedByEntry(data) ==
    CASE data.type = "dict" ->
            (IF "available" \in DOMAIN data THEN data.available ELSE periods)
                \ (IF "unavailable" \in DOMAIN data THEN data.unavailable ELSE {})
      [] data.type = "list" -> data.val
      [] OTHER -> periods

\* C20: _parse_availability returns, for every day 0..4, the day entry's
\* 'available' minus 'unavailable' periods (a bare list is 'available', a
\* missing day or an entry of another type is every period), less {0,1,2} on
\* Monday under never_monday_morning, the last period under no_last_period
\* and period 0 under no_early_morning; the flags are applied after the day
\* entries.  (Days named by at most one entry.)
C20_ParseAvailability ==
    pc = "parsed" =>
        /\ DOMAIN parsed_availability = days
        /\ \A d \in days :
            LET named == EntriesOfDay(availability_doc, d)
            IN  /\ named = {} =>
                    parsed_availability[d] = periods \ RemovedByFlags(availability_doc, d)
                /\ \A i \in named : (named = {i}) =>
                    parsed_availability[d] =
                        GrantedByEntry(availability_doc.entries[i].data)
                            \ RemovedByFlags(availability_doc, d)

\* a parsed document whose Monday entry grants periods that two flags take
\* back, and whose unnamed days lose the last period
C20_Witness ==
    /\ pc = "parsed"
    /\ Flag(availability_doc, "never_monday_morning")
    /\ Flag(availability_doc, "no_last_period")
    /\ \E i \in EntriesOfDay(availability_doc, 0) :
        /\ EntriesOfDay(availability_doc, 0) = {i}
        /\ availability_doc.entries[i].data.type = "dict"
        /\ {0, 7} \subseteq GrantedByEntry(availability_doc.entries[i].data)
        /\ parsed_availability[0] \cap {0, 1, 2, 7} = {}
        /\ parsed_availability[0] # {}
    /\ parsed_availability[2] = 0 .. 6

-----------------------------------------------------------------------------
(* Workload, preferences and objective *)

\* number of assignments of teacher t on day d in a timetable
DailyLoad(solution, t, d) ==
    Cardinality({a \in solution : a.teacher_id = t /\ a.day_of_week = d})

\* max_daily_load of the preferences document of teacher t, 6 when not given
MaxDailyLoadOf(t) ==
    IF /\ t \in DOMAIN teachers
       /\ "preferences" \in DOMAIN teachers[t]
       /\ "max_daily_load" \in DOMAIN teachers[t].preferences
    THEN teachers[t].preferences.max_daily_load
    ELSE 6

\* C21: in every candidate returned by solve, for every teacher and every day
\* the number of that teacher's assignments on that day is at most the
\* teacher's max_daily_load (6 when the preference is not given).
C21_DailyLoadBounded ==
    \A cand \in Returned : \A t \in DOMAIN teachers : \A d \in days :
        DailyLoad(cand.assignments, t, d) <= MaxDailyLoadOf(t)

\* a candidate in which a teacher teaches exactly max_daily_load periods on a
\* day with more available periods than that
C21_Witness ==
    \E cand \in Returned : \E t \in DOMAIN teachers : \E d \in days :
        /\ "preferences" \in DOMAIN teachers[t]
        /\ DailyLoad(cand.assignments, t, d) = MaxDailyLoadOf(t)
        /\ Cardinality(teacher_availability[t][d]) > MaxDailyLoadOf(t)

\* the constraints of the instance that differs from this one only in
\* having no preferences document for any teacher
ModelWithoutPreferences ==
    _add_hard_constraints(assignments, consecutive_vars)
        \cup UNION {
                {SumLe({k \in assignments : k.teacher_id = t /\ k.day_of_week = d}, 6) :
                    d \in {x \in days :
                            \E k \in assignments : k.teacher_id = t /\ k.day_of_week = x}}
                \cup {SumLe({k \in assignments : k.teacher_id = t}, 30)} :
                t \in {a.teacher_id : a \in assignments}}

Feasible(constraints, v) == \A c \in constraints : Satisfied(c, v, {})

PreferenceScore(a) ==
    LET prefs == teacher_preferences[a.teacher_id]
    IN  (IF a.day_of_week \in prefs.preferred_days THEN 3 ELSE 0)
        + (IF a.period \in prefs.preferred_periods THEN 2 ELSE 0)
        + (IF a.room_id \in prefs.preferred_rooms THEN 1 ELSE 0)
        - (IF a.period \in prefs.avoided_periods THEN 5 ELSE 0)
        - (IF prefs.prefers_morning /\ 2 * a.period >= NumPeriods THEN 2 ELSE 0)
        - (IF prefs.prefers_afternoon /\ 2 * a.period < NumPeriods THEN 2 ELSE 0)

RECURSIVE SumPreferenceScore(_)
SumPreferenceScore(v) ==
    IF v = {} THEN 0
    ELSE LET a == CHOOSE x \in v : TRUE
         IN  PreferenceScore(a) + SumPreferenceScore(v \ {a})

-----------------------------------------------------------------------------
(* What solve returns of what was collected *)

\* the two lists hold the same candidates the same number of times
SameCandidates(s1, s2) ==
    /\ Len(s1) = Len(s2)
    /\ \A x \in Range(s1) \cup Range(s2) :
        Cardinality({i \in DOMAIN s1 : s1[i] = x})
            = Cardinality({i \in DOMAIN s2 : s2[i] = x})

\* C27: whenever the solver run ends after the callback has collected at
\* least one solution, solve returns every collected solution; when it ends
\* with nothing collected, solve returns an empty list.
C27_PartialResultsReturned ==
    [][(pc \in {"init", "solving"} /\ pc' = "done") =>
            IF solutions # <<>> THEN SameCandidates(result', solutions)
            ELSE result' = <<>>]_vars

\* the run ended before the collector held solution_limit candidates and
\* solve returned the ones it held
C27_Witness ==
    /\ pc = "done"
    /\ ~stopped
    /\ status = "FEASIBLE"
    /\ Len(result) = 2
    /\ solution_limit = 3

\* what solve returns with solution_limit k >= 1 on the emission sequence of
\* this run: the callback stops the search at the k-th solution and solve
\* sorts what the collector holds
ReturnedWithLimit(k) == SortByScore(SubSeq(solutions, 1, k))

IsPrefix(s1, s2) == Len(s1) <= Len(s2) /\ SubSeq(s2, 1, Len(s1)) = s1

-----------------------------------------------------------------------------
(* Repeatability *)

-----------------------------------------------------------------------------
(* What validate_solution reports *)

\* two assignments of the list share a teacher, a room or a class in a slot
HasConflict(list) ==
    \E i, j \in DOMAIN list :
        /\ i # j
        /\ SameSlot(list[i], list[j])
        /\ \/ list[i].teacher_id = list[j].teacher_id
           \/ list[i].room_id = list[j].room_id
           \/ list[i].class_id = list[j].class_id

RowsOfAttempt ==
    {[id |-> saved_candidates[i].candidate_id,
      metrics |-> saved_candidates[i].metrics,
      rank |-> i] : i \in DOMAIN saved_candidates}

\* the assignment rows of the solutions returned to the current attempt
AssignmentRowsOfAttempt ==
    {row \in [candidate_id : {saved_candidates[i].candidate_id :
                                    i \in DOMAIN saved_candidates},
              assignment : UNION {result[i].assignments : i \in DOMAIN result}] :
        \E i \in DOMAIN saved_candidates :
            /\ row.candidate_id = saved_candidates[i].candidate_id
            /\ row.assignment \in result[i].assignments}

C30_BestCandidateIsDefault ==
    [][/\ (timetable_row.status # "completed" /\ timetable_row'.status = "completed")
            => /\ \E row \in db_candidates' :
                    /\ row.id = timetable_row'.default_candidate_id
                    /\ row.rank = 1
                    /\ row \in RowsOfAttempt'
                    /\ \A other \in RowsOfAttempt' :
                            row.metrics.total_score >= other.metrics.total_score
               /\ \A row \in db_candidates' :
                    row.id = timetable_row'.default_candidate_id => row.rank = 1
       /\ (task_pc = "solving" /\ pc = "done" /\ result = <<>> /\ task_pc' # task_pc)
            => /\ timetable_row'.status = "failed"
               /\ UNCHANGED <<db_candidates, db_assignments, retries>>
               /\ task_pc' = "returned"]_vars

\* the task has completed on its second attempt with two saved candidates of
\* different score, the first of them being the default
C30_Witness ==
    /\ task_pc = "completed"
    /\ timetable_row.status = "completed"
    /\ retries = 1
    /\ Len(saved_candidates) = 2
    /\ saved_candidates[1].metrics.total_score
            > saved_candidates[2].metrics.total_score
    /\ timetable_row.default_candidate_id = saved_candidates[1].candidate_id

====
